---- MODULE Spec2Model ----
(***************************************************************************)
(* The multi-provider completion gateway (ModelController), the LlamaEdge  *)
(* client's retry policy (LlamaEdgeClient._withRetry) and the web chat     *)
(* controller's message pipeline (WebChatController), as state machines.   *)
(* JavaScript runs one continuation at a time, so every action is the code *)
(* between two suspension points (await) of one request.                   *)
(***************************************************************************)
EXTENDS Integers, Sequences, FiniteSets, TLC

(***************************************************************************)
(* Bounds of the model                                                     *)
(***************************************************************************)
\* largest maxAttempts argument tried on _withRetry
MaxN == 4
\* longest completion content streamed
MaxLen == 41
\* number of sendMessage calls in a run with overlapping requests
MaxRequests == 2

(***************************************************************************)
(* Program constants                                                       *)
(***************************************************************************)
MAX_ATTEMPTS == 3
DELAY_MS == 1000
BACKOFF_FACTOR == 2
\* the chunk size _handleStreamingResponse passes to _splitIntoChunks
ChunkSize == 20

ERROR_CODES ==
    [CONNECTION_FAILED |-> "LLAMAEDGE_CONNECTION_FAILED",
     MODEL_NOT_FOUND   |-> "LLAMAEDGE_MODEL_NOT_FOUND",
     INVALID_REQUEST   |-> "LLAMAEDGE_INVALID_REQUEST",
     TIMEOUT           |-> "LLAMAEDGE_TIMEOUT",
     RATE_LIMITED      |-> "LLAMAEDGE_RATE_LIMITED",
     SERVER_ERROR      |-> "LLAMAEDGE_SERVER_ERROR"]

\* the two provider names the controller knows, in the order
\* _initializeProviders inserts them into this.providers
ProviderNames == <<"llamaedge", "openai">>

\* an error field that is undefined in JavaScript
NoStatus == 0
NoCode == "undefined"
NoError ==
    [provider |-> "none", code |-> NoCode, status |-> NoStatus,
     response |-> NoStatus, attempt |-> 0]
NoResponse == [provider |-> "none", attempt |-> 0]

VARIABLES
    \* ---- ModelController (one instance shared by its callers) ----
    providers,         \* keys of this.providers
    primaryProvider,   \* this.primaryProvider
    fallbackEnabled,   \* this.fallbackEnabled
    activeProvider,    \* this.activeProvider
    axiosErrorStatus,  \* whether the HTTP client's errors carry error.status
    leBackend,         \* what the LlamaEdge server answers to a chat request now
    oaBackend,         \* what the OpenAI API answers to a chat request now
    live,              \* the callers that issue createChatCompletion calls
    pc,                \* per caller: where its createChatCompletion call is
    enableFallback,    \* per caller: the enableFallback argument
    maxRetries,        \* per caller: local maxRetries
    providerOrder,     \* per caller: local providerOrder
    pos,               \* per caller: index of providerName in providerOrder
    attempts,          \* per caller: local attempts
    lastError,         \* per caller: local lastError
    attempt,           \* per caller: _withRetry's attempt counter
    result,            \* per caller: the response returned or the error thrown
    tried,             \* per caller: the providers whose completion was called
    stable,            \* per caller: no backend changed since the call started
    promoted,          \* the provider the latest failover promoted, if any
    sw,                \* the switchProvider call in progress
    \* ---- LlamaEdgeClient._withRetry on an arbitrary operation ----
    rt,                \* the _withRetry call in progress and what it did so far
    \* ---- WebChatController and the session store ----
    store,             \* the session store: session id -> session record
    issued,            \* the session ids createSession has generated
    activeStreams,     \* this.activeStreams: session id -> the request whose res it holds
    rq,                \* per request slot: the sendMessage call in progress
    del,               \* the deleteSession call in progress
    started,           \* number of sendMessage calls made so far
    exchanges,         \* per session id: exchanges written back to the store
    replies,           \* the contents a completion may have
    budget,            \* number of sendMessage calls the run may make
    \* ---- the ModelController constructor ----
    env,               \* process.env as the constructor reads it
    ctor,              \* "new", "constructed", or "failed" when it threw
    \* ---- ModelController.getProvidersInfo ----
    info               \* the call in progress and the info object it builds

mcVars == <<providers, primaryProvider, fallbackEnabled, activeProvider,
            axiosErrorStatus, leBackend, oaBackend, live, pc, enableFallback,
            maxRetries, providerOrder, pos, attempts, lastError, attempt,
            result, tried, stable, promoted, sw>>
rtVars == <<rt>>
webVars == <<store, issued, activeStreams, rq, del, started, exchanges, replies, budget>>
ctorVars == <<env, ctor>>
infoVars == <<info>>
vars == <<mcVars, rtVars, webVars, ctorVars, infoVars>>

Callers == {"r1", "r2"}

(***************************************************************************)
(* Sequences helpers                                                       *)
(***************************************************************************)
RECURSIVE SelectSeqIn(_, _)
\* Array.prototype.filter with a membership test
SelectSeqIn(s, S) ==
    IF s = << >> THEN << >>
    ELSE IF Head(s) \in S THEN <<Head(s)>> \o SelectSeqIn(Tail(s), S)
    ELSE SelectSeqIn(Tail(s), S)

RECURSIVE Pow(_, _)
\* Math.pow on naturals
Pow(b, e) == IF e = 0 THEN 1 ELSE b * Pow(b, e - 1)

(***************************************************************************)
(* Backends: what one HTTP request to a backend ends with                  *)
(***************************************************************************)
\* axios: a response with a status, a request without response (refused, or
\* aborted when the timeout of the operation ran out), or a failure before
\* the request was sent
LEStatuses == {400, 401, 404, 429, 500}
LEOk == [ok |-> TRUE, response |-> TRUE, request |-> TRUE, status |-> 200, timedOut |-> FALSE]
LEHttp(s) ==
    [ok |-> FALSE, response |-> TRUE, request |-> TRUE, status |-> s, timedOut |-> FALSE]
LENoResponse ==
    [ok |-> FALSE, response |-> FALSE, request |-> TRUE, status |-> NoStatus,
     timedOut |-> FALSE]
LETimeout ==
    [ok |-> FALSE, response |-> FALSE, request |-> TRUE, status |-> NoStatus,
     timedOut |-> TRUE]
LESetup ==
    [ok |-> FALSE, response |-> FALSE, request |-> FALSE, status |-> NoStatus,
     timedOut |-> FALSE]
LEOutcomes == {LEOk, LENoResponse, LETimeout, LESetup} \cup {LEHttp(s) : s \in LEStatuses}

\* the OpenAI SDK: a completion, an APIError with the HTTP status, or a
\* connection error without one
OAStatuses == {400, 500}
OAOk == [ok |-> TRUE, status |-> 200]
OAHttp(s) == [ok |-> FALSE, status |-> s]
OAConnection == [ok |-> FALSE, status |-> NoStatus]
OAOutcomes == {OAOk, OAConnection} \cup {OAHttp(s) : s \in OAStatuses}

\* the choices field of a response: not an array (missing), or an array
NoChoices == [array |-> FALSE, items |-> << >>]
Choices(items) == [array |-> TRUE, items |-> items]
\* one element of a choices array as a backend sends it
RawChoice(content, text) == [content |-> content, text |-> text]
\* one element of a choices array in the OpenAI format
Choice(index, content) ==
    [index |-> index, role |-> "assistant", content |-> content, finish_reason |-> "stop"]

\* the bodies the LlamaEdge server may answer a chat request with: no choices
\* field and a content field, no choices field and a flat text field, a
\* choices array of length 0, 1 and 2
LEBodies ==
    {[choices |-> NoChoices, content |-> "hi", text |-> NoCode],
     [choices |-> NoChoices, content |-> NoCode, text |-> "hi"],
     [choices |-> Choices(<< >>), content |-> NoCode, text |-> NoCode],
     [choices |-> Choices(<<RawChoice("hi", NoCode)>>), content |-> NoCode, text |-> NoCode],
     [choices |-> Choices(<<RawChoice("hi", NoCode), RawChoice(NoCode, "hi")>>),
      content |-> NoCode, text |-> NoCode]}

\* the completions the OpenAI SDK may resolve with: no choices field, a
\* choices array of length 0 and 1
OABodies ==
    {[choices |-> NoChoices],
     [choices |-> Choices(<< >>)],
     [choices |-> Choices(<<Choice(0, "hi")>>)]}

(***************************************************************************)
(* LlamaEdgeClient                                                         *)
(***************************************************************************)
\* what a call that has not returned a response holds: no response, and
\* the error thrown, if any
outcomeError(err) == [response |-> NoResponse, error |-> err, choices |-> NoChoices]

\* a || b on values that may be undefined or the empty string
orElse(a, b) == IF a \in {NoCode, ""} THEN b ELSE a

\* _transformChatResponse: the choices of the object it returns
transformChatResponse(data) ==
    IF ~data.choices.array
    THEN [choices |-> Choices(<<Choice(0, orElse(data.content, orElse(data.text, "")))>>)]
    ELSE [choices |->
            Choices([i \in 1..Len(data.choices.items) |->
                        Choice(i - 1, orElse(data.choices.items[i].content,
                                             orElse(data.choices.items[i].text, "")))])]

\* _handleResponseError: the error code given to a failed request
\* Variant of the classification whose switch lacks the default case: a
\* status without a case of its own keeps no server-error code.
handleResponseErrorNoDefault(o) ==
    IF o.response THEN
        CASE o.status = 404 -> ERROR_CODES.MODEL_NOT_FOUND
          [] o.status = 400 -> ERROR_CODES.INVALID_REQUEST
          [] o.status = 429 -> ERROR_CODES.RATE_LIMITED
          [] o.status \in {500, 502, 503} -> ERROR_CODES.SERVER_ERROR
          [] OTHER -> ERROR_CODES.INVALID_REQUEST
    ELSE IF o.request THEN ERROR_CODES.CONNECTION_FAILED
    ELSE ERROR_CODES.INVALID_REQUEST

handleResponseError(o) ==
    IF o.response THEN
        CASE o.status = 404 -> ERROR_CODES.MODEL_NOT_FOUND
          [] o.status = 400 -> ERROR_CODES.INVALID_REQUEST
          [] o.status = 429 -> ERROR_CODES.RATE_LIMITED
          [] o.status \in {500, 502, 503} -> ERROR_CODES.SERVER_ERROR
          [] OTHER -> ERROR_CODES.SERVER_ERROR
    ELSE IF o.request THEN ERROR_CODES.CONNECTION_FAILED
    ELSE ERROR_CODES.INVALID_REQUEST

\* the error object the response interceptor rejects with
llamaEdgeError(o, att) ==
    [provider |-> "llamaedge",
     code     |-> handleResponseError(o),
     status   |-> IF o.response /\ axiosErrorStatus THEN o.status ELSE NoStatus,
     response |-> IF o.response THEN o.status ELSE NoStatus,
     attempt  |-> att]

\* the error object the OpenAI SDK rejects with
openaiError(o) ==
    [provider |-> "openai", code |-> NoCode, status |-> o.status,
     response |-> o.status, attempt |-> 1]

\* a slip: MODEL_NOT_FOUND is retried like any other failure
withRetryTerminalOne(error) == error.code = ERROR_CODES.INVALID_REQUEST

\* _withRetry, the test that ends the retry loop at once
withRetryTerminal(error) ==
    error.code = ERROR_CODES.INVALID_REQUEST \/ error.code = ERROR_CODES.MODEL_NOT_FOUND

\* a slip: the exponent is the attempt number, not one less
withRetryDelayLate(att) == DELAY_MS * Pow(BACKOFF_FACTOR, att)

\* _withRetry, the delay waited after a failed attempt
withRetryDelay(att) == DELAY_MS * Pow(BACKOFF_FACTOR, att - 1)

\* a slip: the loop allows one attempt more than maxAttempts
withRetryCatchOneMore(att, maxAttempts, error) ==
    IF withRetryTerminal(error) THEN [do |-> "throw", delay |-> 0]
    ELSE IF att <= maxAttempts THEN [do |-> "wait", delay |-> withRetryDelay(att)]
    ELSE [do |-> "throw", delay |-> 0]

\* _withRetry, the catch block: what follows a failed attempt
withRetryCatch(att, maxAttempts, error) ==
    IF withRetryTerminal(error) THEN [do |-> "throw", delay |-> 0]
    ELSE IF att < maxAttempts THEN [do |-> "wait", delay |-> withRetryDelay(att)]
    ELSE [do |-> "throw", delay |-> 0]

(***************************************************************************)
(* ModelController                                                         *)
(***************************************************************************)
\* a slip: the primary provider is made active whether or not it is configured
initialActivePrimary(configured, primary) == primary

\* _initializeProviders: the provider that is active after construction
\* (Object.keys(this.providers)[0] is the first name inserted)
initialActive(configured, primary) ==
    IF primary \in configured THEN primary
    ELSE SelectSeqIn(ProviderNames, configured)[1]

\* a value of process.env that an if takes for true
truthy(v) == v \notin {NoCode, ""}

\* a slip: both providers are instantiated whatever the environment holds
instantiatedAll(e) == {"llamaedge", "openai"}

\* _initializeProviders: the providers that are instantiated
instantiated(e) ==
    {p \in {"llamaedge", "openai"} :
        \/ p = "llamaedge" /\ truthy(e.LLAMAEDGE_API_URL)
        \/ p = "openai" /\ truthy(e.OPENAI_AI_KEY)}

\* constructor: process.env.AI_PROVIDER || 'llamaedge'
primaryOf(e) == orElse(e.AI_PROVIDER, "llamaedge")

\* constructor: process.env.AI_FALLBACK_ENABLED !== 'false'
fallbackOf(e) == e.AI_FALLBACK_ENABLED # "false"

\* an environment from which the constructor builds a given configuration
envOf(configured, primary, fallback) ==
    [LLAMAEDGE_API_URL   |-> IF "llamaedge" \in configured THEN "url" ELSE NoCode,
     OPENAI_AI_KEY       |-> IF "openai" \in configured THEN "key" ELSE NoCode,
     AI_PROVIDER         |-> primary,
     AI_FALLBACK_ENABLED |-> IF fallback THEN NoCode ELSE "false"]

\* the environments a ModelController is constructed in
Envs ==
    [LLAMAEDGE_API_URL   : {NoCode, "", "url"},
     OPENAI_AI_KEY       : {NoCode, "", "key"},
     AI_PROVIDER         : {NoCode, "", "llamaedge", "openai", "mistral"},
     AI_FALLBACK_ENABLED : {NoCode, "false", "true"}]

\* new ModelController(): the constructor and _initializeProviders
newModelController ==
    /\ ctor = "new"
    /\ primaryProvider' = primaryOf(env)
    /\ fallbackEnabled' = fallbackOf(env)
    /\ providers' = instantiated(env)
    /\ IF instantiated(env) = {}
       THEN /\ ctor' = "failed"
            /\ UNCHANGED activeProvider
       ELSE /\ ctor' = "constructed"
            /\ activeProvider' = initialActive(instantiated(env), primaryOf(env))
    /\ UNCHANGED <<axiosErrorStatus, leBackend, oaBackend, live, pc, enableFallback,
                   maxRetries, providerOrder, pos, attempts, lastError, attempt,
                   result, tried, stable, promoted, sw, env>>
    /\ UNCHANGED <<rtVars, webVars, infoVars>>

\* ModelController.getProviderType
getProviderType(active) == active

\* WebChatController._getActiveProvider: the provider type of a ModelController
\* constructed for the occasion from the environment, 'unknown' when the
\* constructor throws
getActiveProvider ==
    IF instantiated(env) = {} THEN "unknown"
    ELSE getProviderType(initialActive(instantiated(env), primaryOf(env)))

\* Object.keys(this.providers)
providerKeys == SelectSeqIn(ProviderNames, providers)

\* a slip: the fallback switch is ignored, one candidate is all that is tried
initialMaxRetriesOne(fallback) == 1

\* a slip: every configured provider may be tried whatever the fallback switch
initialMaxRetriesAll(fallback) == Len(providerKeys)

\* createChatCompletion: local maxRetries
initialMaxRetries(fallback) == IF fallback THEN Len(providerKeys) ELSE 1

\* a slip: the candidates are the registry keys, the active one not put first
buildProviderOrderKeys == providerKeys

\* createChatCompletion: local providerOrder
buildProviderOrder ==
    <<activeProvider>> \o SelectSeqIn(providerKeys, providers \ {activeProvider})

\* createChatCompletion: the errors the catch block throws again at once
rethrown(error) == error.code = "INVALID_REQUEST" \/ error.status = 400

\* a slip: a successful failover does not move this.activeProvider
activeAfterSuccessKept(providerName) == activeProvider

\* createChatCompletion: this.activeProvider after providerName succeeded
activeAfterSuccess(providerName) ==
    IF providerName # activeProvider THEN providerName ELSE activeProvider

\* a slip: the response is labelled with the active provider
annotateActive(providerName, att) == [provider |-> activeProvider, attempt |-> att]

\* createChatCompletion: the returned object's _provider and _attempt
annotate(providerName, att) == [provider |-> providerName, attempt |-> att]

\* createChatCompletion: the error thrown when the loop ends
allFailed(err) ==
    IF err # NoError THEN err
    ELSE [provider |-> "controller", code |-> NoCode, status |-> NoStatus,
          response |-> NoStatus, attempt |-> 0]

RECURSIVE nextCandidate(_, _, _, _)
\* createChatCompletion: the for loop from index i on; the index of the
\* next provider whose completion is called, 0 when the loop ends
nextCandidate(order, i, att, maxR) ==
    IF i > Len(order) THEN 0
    ELSE IF att >= maxR THEN 0
    ELSE IF order[i] \notin providers THEN nextCandidate(order, i + 1, att, maxR)
    ELSE i

InFlight == {"llamaedge", "backoff", "openai"}

\* the loop runs from index i until the next await or until it ends
loopFrom(c, order, i, att, maxR, err) ==
    LET n == nextCandidate(order, i, att, maxR) IN
    IF n = 0
    THEN /\ pc' = [pc EXCEPT ![c] = "thrown"]
         /\ result' = [result EXCEPT ![c] = outcomeError(allFailed(err))]
         /\ promoted' = "none"
         /\ UNCHANGED <<pos, attempts, attempt, tried>>
    ELSE /\ pc' = [pc EXCEPT ![c] = order[n]]
         /\ pos' = [pos EXCEPT ![c] = n]
         /\ attempts' = [attempts EXCEPT ![c] = att + 1]
         /\ attempt' = [attempt EXCEPT ![c] = 1]
         /\ tried' = [tried EXCEPT ![c] = Append(tried[c], order[n])]
         /\ UNCHANGED <<result, promoted>>

\* createChatCompletion is called (enableFallback defaults to fallbackEnabled)
createChatCompletion(c) ==
    /\ c \in live
    /\ pc[c] \notin InFlight
    /\ LET order == buildProviderOrder
           maxR == initialMaxRetries(fallbackEnabled)
           n == nextCandidate(order, 1, 0, maxR) IN
       /\ enableFallback' = [enableFallback EXCEPT ![c] = fallbackEnabled]
       /\ maxRetries' = [maxRetries EXCEPT ![c] = maxR]
       /\ providerOrder' = [providerOrder EXCEPT ![c] = order]
       /\ lastError' = [lastError EXCEPT ![c] = NoError]
       /\ stable' = [stable EXCEPT ![c] = TRUE]
       /\ IF n = 0
          THEN /\ pc' = [pc EXCEPT ![c] = "thrown"]
               /\ result' = [result EXCEPT ![c] = outcomeError(allFailed(NoError))]
               /\ promoted' = "none"
               /\ pos' = [pos EXCEPT ![c] = 0]
               /\ attempts' = [attempts EXCEPT ![c] = 0]
               /\ attempt' = [attempt EXCEPT ![c] = 0]
               /\ tried' = [tried EXCEPT ![c] = << >>]
          ELSE /\ pc' = [pc EXCEPT ![c] = order[n]]
               /\ pos' = [pos EXCEPT ![c] = n]
               /\ attempts' = [attempts EXCEPT ![c] = 1]
               /\ attempt' = [attempt EXCEPT ![c] = 1]
               /\ tried' = [tried EXCEPT ![c] = <<order[n]>>]
               /\ result' = [result EXCEPT ![c] = outcomeError(NoError)]
               /\ UNCHANGED promoted
    /\ UNCHANGED <<providers, primaryProvider, fallbackEnabled, activeProvider,
                   axiosErrorStatus, leBackend, oaBackend, live, sw>>
    /\ UNCHANGED <<rtVars, webVars, ctorVars, infoVars>>

\* the try block after the awaited provider call resolved
succeed(c, providerName, response) ==
    /\ activeProvider' = activeAfterSuccess(providerName)
    /\ promoted' = IF providerName # activeProvider THEN providerName ELSE promoted
    /\ result' = [result EXCEPT ![c] =
                     [response |-> annotate(providerName, attempts[c]), error |-> NoError,
                      choices |-> response.choices]]
    /\ pc' = [pc EXCEPT ![c] = "returned"]
    /\ UNCHANGED <<pos, attempts, attempt, tried, lastError>>

\* a slip: the catch block makes the next candidate the active provider
\* before that candidate has answered
failEager(c, error) ==
    /\ lastError' = [lastError EXCEPT ![c] = error]
    /\ activeProvider' =
          LET n == nextCandidate(providerOrder[c], pos[c] + 1, attempts[c], maxRetries[c]) IN
          IF ~rethrown(error) /\ n # 0 THEN providerOrder[c][n] ELSE activeProvider
    /\ IF rethrown(error)
       THEN /\ pc' = [pc EXCEPT ![c] = "thrown"]
            /\ result' = [result EXCEPT ![c] = outcomeError(error)]
            /\ promoted' = "none"
            /\ UNCHANGED <<pos, attempts, attempt, tried>>
       ELSE loopFrom(c, providerOrder[c], pos[c] + 1, attempts[c], maxRetries[c], error)

\* the catch block after the awaited provider call rejected with error
fail(c, error) ==
    /\ lastError' = [lastError EXCEPT ![c] = error]
    /\ UNCHANGED activeProvider
    /\ IF rethrown(error)
       THEN /\ pc' = [pc EXCEPT ![c] = "thrown"]
            /\ result' = [result EXCEPT ![c] = outcomeError(error)]
            /\ promoted' = "none"
            /\ UNCHANGED <<pos, attempts, attempt, tried>>
       ELSE loopFrom(c, providerOrder[c], pos[c] + 1, attempts[c], maxRetries[c], error)

\* the LlamaEdge request of the current retry attempt is answered
LlamaEdgeResponds(c) ==
    /\ pc[c] = "llamaedge"
    /\ leBackend.ok
    /\ \E data \in LEBodies : succeed(c, "llamaedge", transformChatResponse(data))
    /\ UNCHANGED <<providers, primaryProvider, fallbackEnabled, axiosErrorStatus,
                   leBackend, oaBackend, live, enableFallback, maxRetries,
                   providerOrder, stable, sw>>
    /\ UNCHANGED <<rtVars, webVars, ctorVars, infoVars>>

\* the LlamaEdge request of the current retry attempt fails: _withRetry
\* waits before the next attempt, or throws into createChatCompletion
LlamaEdgeFails(c) ==
    /\ pc[c] = "llamaedge"
    /\ ~leBackend.ok
    /\ LET error == llamaEdgeError(leBackend, attempt[c])
           next == withRetryCatch(attempt[c], MAX_ATTEMPTS, error) IN
       IF next.do = "wait"
       THEN /\ pc' = [pc EXCEPT ![c] = "backoff"]
            /\ UNCHANGED <<activeProvider, pos, attempts, attempt, tried, lastError,
                           result, promoted>>
       ELSE fail(c, error)
    /\ UNCHANGED <<providers, primaryProvider, fallbackEnabled, axiosErrorStatus,
                   leBackend, oaBackend, live, enableFallback, maxRetries,
                   providerOrder, stable, sw>>
    /\ UNCHANGED <<rtVars, webVars, ctorVars, infoVars>>

\* _withRetry's delay has passed: the next attempt is made
BackoffDone(c) ==
    /\ pc[c] = "backoff"
    /\ pc' = [pc EXCEPT ![c] = "llamaedge"]
    /\ attempt' = [attempt EXCEPT ![c] = attempt[c] + 1]
    /\ UNCHANGED <<providers, primaryProvider, fallbackEnabled, activeProvider,
                   axiosErrorStatus, leBackend, oaBackend, live, enableFallback,
                   maxRetries, providerOrder, pos, attempts, lastError, result,
                   tried, stable, promoted, sw>>
    /\ UNCHANGED <<rtVars, webVars, ctorVars, infoVars>>

\* the OpenAI request is answered
OpenAIResponds(c) ==
    /\ pc[c] = "openai"
    /\ oaBackend.ok
    /\ \E response \in OABodies : succeed(c, "openai", response)
    /\ UNCHANGED <<providers, primaryProvider, fallbackEnabled, axiosErrorStatus,
                   leBackend, oaBackend, live, enableFallback, maxRetries,
                   providerOrder, stable, sw>>
    /\ UNCHANGED <<rtVars, webVars, ctorVars, infoVars>>

\* the OpenAI request fails
OpenAIFails(c) ==
    /\ pc[c] = "openai"
    /\ ~oaBackend.ok
    /\ fail(c, openaiError(oaBackend))
    /\ UNCHANGED <<providers, primaryProvider, fallbackEnabled, axiosErrorStatus,
                   leBackend, oaBackend, live, enableFallback, maxRetries,
                   providerOrder, stable, sw>>
    /\ UNCHANGED <<rtVars, webVars, ctorVars, infoVars>>

\* a backend starts to answer differently
BackendChange ==
    /\ \/ /\ leBackend' \in LEOutcomes \ {leBackend}
          /\ UNCHANGED oaBackend
       \/ /\ oaBackend' \in OAOutcomes \ {oaBackend}
          /\ UNCHANGED leBackend
    /\ stable' = [c \in Callers |-> FALSE]
    /\ UNCHANGED <<providers, primaryProvider, fallbackEnabled, activeProvider,
                   axiosErrorStatus, live, pc, enableFallback, maxRetries,
                   providerOrder, pos, attempts, lastError, attempt, result,
                   tried, promoted, sw>>
    /\ UNCHANGED <<rtVars, webVars, ctorVars, infoVars>>

SwitchIdle == [pc |-> "idle", providerName |-> "none", oldProvider |-> "none", result |-> "none"]

\* a slip: every name is taken for a configured provider
providerAvailableAny(providerName) == TRUE

\* switchProvider: the test this.providers[providerName]
providerAvailable(providerName) == providerName \in providers

\* switchProvider up to its await of healthCheck
switchProvider(providerName) ==
    /\ sw.pc # "probe"
    /\ IF ~providerAvailable(providerName)
       THEN /\ sw' = [SwitchIdle EXCEPT !.pc = "done", !.providerName = providerName,
                                        !.result = "unavailable"]
            /\ UNCHANGED <<activeProvider, promoted>>
       ELSE /\ sw' = [pc |-> "probe", providerName |-> providerName,
                      oldProvider |-> activeProvider, result |-> "none"]
            /\ activeProvider' = providerName
            /\ promoted' = "none"
    /\ UNCHANGED <<providers, primaryProvider, fallbackEnabled, axiosErrorStatus,
                   leBackend, oaBackend, live, pc, enableFallback, maxRetries,
                   providerOrder, pos, attempts, lastError, attempt, result,
                   tried, stable>>
    /\ UNCHANGED <<rtVars, webVars, ctorVars, infoVars>>

\* switchProvider after healthCheck resolved
HealthCheckReturns(isHealthy) ==
    /\ sw.pc = "probe"
    /\ IF isHealthy
       THEN /\ sw' = [SwitchIdle EXCEPT !.pc = "done", !.result = "switched"]
            /\ UNCHANGED activeProvider
       ELSE /\ sw' = [SwitchIdle EXCEPT !.pc = "done", !.result = "unhealthy"]
            /\ activeProvider' = sw.oldProvider
    /\ promoted' = "none"
    /\ UNCHANGED <<providers, primaryProvider, fallbackEnabled, axiosErrorStatus,
                   leBackend, oaBackend, live, pc, enableFallback, maxRetries,
                   providerOrder, pos, attempts, lastError, attempt, result,
                   tried, stable>>
    /\ UNCHANGED <<rtVars, webVars, ctorVars, infoVars>>

SwitchNames == {"llamaedge", "openai", "mistral"}

\* the position of a configured provider in Object.keys(this.providers)
orderIndexOf(p) == CHOOSE i \in 1..Len(providerKeys) : providerKeys[i] = p

\* no getProvidersInfo call made yet
InfoIdle ==
    [pc |-> "idle", target |-> "none", reported |-> {},
     healthy |-> [p \in {"llamaedge", "openai"} |-> FALSE]]

\* ModelController.healthCheck up to its await: the provider it probes is
\* the active one
healthCheckTarget == activeProvider

\* getProvidersInfo, the for loop from entry i of Object.entries on, up to
\* the next await
infoFrom(inf, i) ==
    IF i > Len(providerKeys) THEN [inf EXCEPT !.pc = "done"]
    ELSE IF providerKeys[i] = "llamaedge" THEN [inf EXCEPT !.pc = "server_info"]
    ELSE [inf EXCEPT !.pc = "health_check", !.target = healthCheckTarget]

\* getProvidersInfo is called
getProvidersInfo ==
    /\ info.pc \in {"idle", "done"}
    /\ info' = infoFrom(InfoIdle, 1)
    /\ UNCHANGED <<mcVars, rtVars, webVars, ctorVars>>

\* provider.getServerInfo() of the llamaedge entry resolved
ServerInfoReturns ==
    /\ info.pc = "server_info"
    /\ info' = infoFrom([info EXCEPT !.reported = @ \cup {"llamaedge"},
                                     !.healthy["llamaedge"] = leBackend.ok],
                        orderIndexOf("llamaedge") + 1)
    /\ UNCHANGED <<mcVars, rtVars, webVars, ctorVars>>

\* this.healthCheck() of the openai entry resolved: the probe of its target
\* answered, or it returned false for a target it knows no probe for
InfoHealthCheckReturns ==
    /\ info.pc = "health_check"
    /\ info' = infoFrom([info EXCEPT
                            !.reported = @ \cup {"openai"},
                            !.healthy["openai"] =
                                IF info.target = "llamaedge" THEN leBackend.ok
                                ELSE IF info.target = "openai" THEN oaBackend.ok
                                ELSE FALSE],
                        orderIndexOf("openai") + 1)
    /\ UNCHANGED <<mcVars, rtVars, webVars, ctorVars>>

IdleCalls ==
    /\ pc = [c \in Callers |-> "idle"]
    /\ enableFallback = [c \in Callers |-> FALSE]
    /\ maxRetries = [c \in Callers |-> 0]
    /\ providerOrder = [c \in Callers |-> << >>]
    /\ pos = [c \in Callers |-> 0]
    /\ attempts = [c \in Callers |-> 0]
    /\ lastError = [c \in Callers |-> NoError]
    /\ attempt = [c \in Callers |-> 0]
    /\ result = [c \in Callers |-> outcomeError(NoError)]
    /\ tried = [c \in Callers |-> << >>]
    /\ stable = [c \in Callers |-> FALSE]
    /\ promoted = "none"
    /\ sw = SwitchIdle
    /\ info = InfoIdle

(***************************************************************************)
(* LlamaEdgeClient._withRetry on an arbitrary operation                    *)
(***************************************************************************)
RetryIdle ==
    [pc |-> "idle", maxAttempts |-> 0, attempt |-> 0, calls |-> 0,
     errors |-> << >>, delays |-> << >>, thrown |-> NoError]

\* the codes an operation's error may carry
OperationCodes ==
    {ERROR_CODES.CONNECTION_FAILED, ERROR_CODES.MODEL_NOT_FOUND,
     ERROR_CODES.INVALID_REQUEST, ERROR_CODES.TIMEOUT,
     ERROR_CODES.RATE_LIMITED, ERROR_CODES.SERVER_ERROR, NoCode}

\* _withRetry(operation, maxAttempts) is called: the first attempt starts
withRetry(maxAttempts) ==
    /\ rt.pc \in {"idle", "returned", "thrown"}
    /\ rt' = [RetryIdle EXCEPT !.pc = "operation", !.maxAttempts = maxAttempts,
                               !.attempt = 1, !.calls = 1]
    /\ UNCHANGED <<mcVars, webVars, ctorVars, infoVars>>

\* the awaited operation resolves: _withRetry returns its value
OperationResolves ==
    /\ rt.pc = "operation"
    /\ rt' = [rt EXCEPT !.pc = "returned"]
    /\ UNCHANGED <<mcVars, webVars, ctorVars, infoVars>>

\* the awaited operation rejects: the catch block of _withRetry
OperationRejects(code) ==
    /\ rt.pc = "operation"
    /\ LET error == [provider |-> "operation", code |-> code, status |-> NoStatus,
                     response |-> NoStatus, attempt |-> rt.attempt]
           next == withRetryCatch(rt.attempt, rt.maxAttempts, error) IN
       rt' = IF next.do = "wait"
             THEN [rt EXCEPT !.pc = "wait",
                             !.errors = Append(@, error),
                             !.delays = Append(@, next.delay)]
             ELSE [rt EXCEPT !.pc = "thrown",
                             !.errors = Append(@, error),
                             !.thrown = error]
    /\ UNCHANGED <<mcVars, webVars, ctorVars, infoVars>>

\* the delay has passed: the loop's next iteration calls the operation
DelayPasses ==
    /\ rt.pc = "wait"
    /\ rt' = [rt EXCEPT !.pc = "operation", !.attempt = @ + 1, !.calls = @ + 1]
    /\ UNCHANGED <<mcVars, webVars, ctorVars, infoVars>>

(***************************************************************************)
(* WebChatController                                                       *)
(***************************************************************************)
SessionIds == {"s1"}
Slots == {"q1", "q2"}

NoSession == [exists |-> FALSE, text |-> << >>, messageCount |-> 0]
NullContent == <<0>>
NotAString == <<"undefined">>

\* request bodies: message missing, empty, blank, plain, padded
Bodies == {NotAString, << >>, <<" ">>, <<"a">>, <<" ", "a", " ">>}

RECURSIVE trimStart(_)
trimStart(m) == IF m # << >> /\ Head(m) = " " THEN trimStart(Tail(m)) ELSE m

RECURSIVE trimEnd(_)
trimEnd(m) ==
    IF m # << >> /\ m[Len(m)] = " " THEN trimEnd(SubSeq(m, 1, Len(m) - 1)) ELSE m

\* a slip: the message is stored as it was sent
trimNone(m) == m

\* String.prototype.trim
trim(m) == trimEnd(trimStart(m))

\* sendMessage: the input validation
validMessage(m) == m # NotAString /\ m # << >> /\ Len(trim(m)) # 0

\* a completion's content of length n
Text(n) == [i \in 1..n |-> i]

\* String.prototype.slice(i, j) on 0-based positions
slice(text, i, j) ==
    SubSeq(text, i + 1, IF j < Len(text) THEN j ELSE Len(text))

RECURSIVE chunksFrom(_, _, _)
\* _splitIntoChunks: the for loop from position i on
chunksFrom(text, i, chunkSize) ==
    IF i < Len(text)
    THEN <<slice(text, i, i + chunkSize)>> \o chunksFrom(text, i + chunkSize, chunkSize)
    ELSE << >>

\* a slip: the loop steps by one more than the chunk size
splitIntoChunksWide(text, chunkSize) ==
    LET chunks == chunksFrom(text, 0, chunkSize + 1) IN
    IF Len(chunks) > 0 THEN chunks ELSE << << >> >>

\* _splitIntoChunks
splitIntoChunks(text, chunkSize) ==
    LET chunks == chunksFrom(text, 0, chunkSize) IN
    IF Len(chunks) > 0 THEN chunks ELSE << << >> >>

\* aiResponse.content || ''
contentOrEmpty(content) == IF content = NullContent THEN << >> ELSE content

\* EMPTY_SESSION with the metadata createSession adds
newSession == [exists |-> TRUE, text |-> << >>, messageCount |-> 0]

\* db.get_session: status is false when the store has no such session
getSession(sessionId) == store[sessionId]

\* a slip: the status of the store's answer is not looked at
sessionFoundAlways(sessionResponse) == TRUE

\* sendMessage: the test on sessionResponse.status
sessionFound(sessionResponse) == sessionResponse.exists

NoStream == "none"

\* a handler that returned: its locals are gone, what it did to res stays
returned(r) ==
    [r EXCEPT !.pc = "done", !.session = NoSession, !.messages = << >>,
              !.chunks = << >>, !.i = 0, !.aged = FALSE]

RqIdle ==
    [pc |-> "new", sessionId |-> "none", stream |-> FALSE, session |-> NoSession,
     messages |-> << >>, content |-> NullContent, chunks |-> << >>, i |-> 0,
     status |-> 0, events |-> << >>, ended |-> FALSE, disconnected |-> FALSE,
     aged |-> FALSE, swept |-> FALSE, calledAI |-> FALSE, wrote |-> FALSE,
     registered |-> FALSE, failure |-> "none", loadedAt |-> 0]

DelIdle == [pc |-> "idle", sessionId |-> "none", status |-> 0]

\* _sendSSEEvent on the res of a request: the event joins what was written
sendSSEEvent(r, event) ==
    [r EXCEPT !.events = Append(@, [event EXCEPT !.afterEnd = r.ended,
                                                !.afterClose = r.disconnected])]

Event(name, index, content, isLast) ==
    [event |-> name, chunkIndex |-> index, content |-> content, isLast |-> isLast,
     afterEnd |-> FALSE, afterClose |-> FALSE]

\* Map.prototype.delete
mapDelete(map, key) == [map EXCEPT ![key] = NoStream]

\* createSession: a session with a fresh id is saved
createSession(sessionId) ==
    /\ sessionId \notin issued
    /\ issued' = issued \cup {sessionId}
    /\ store' = [store EXCEPT ![sessionId] = newSession]
    /\ UNCHANGED <<activeStreams, rq, del, started, exchanges, replies, budget>>
    /\ UNCHANGED <<mcVars, rtVars, ctorVars, infoVars>>

\* sendMessage up to its await of db.get_session
sendMessage(q, sessionId, message, stream) ==
    /\ rq[q].pc \in {"new", "done"}
    /\ started < budget
    /\ started' = started + 1
    /\ rq' = [rq EXCEPT ![q] =
                IF ~validMessage(message)
                THEN [RqIdle EXCEPT !.pc = "done", !.sessionId = sessionId,
                                    !.stream = stream, !.status = 400]
                ELSE [RqIdle EXCEPT !.pc = "get_session", !.sessionId = sessionId,
                                    !.stream = stream,
                                    !.messages = <<[role |-> "user", content |-> trim(message)]>>]]
    /\ UNCHANGED <<store, issued, activeStreams, del, exchanges, replies, budget>>
    /\ UNCHANGED <<mcVars, rtVars, ctorVars, infoVars>>

\* sendMessage after db.get_session resolved, into _handleRegularResponse or
\* _handleStreamingResponse up to the await of the completion
sessionLoaded(q) ==
    LET r == rq[q]
        sessionResponse == getSession(r.sessionId) IN
    IF ~sessionFound(sessionResponse)
    THEN /\ rq' = [rq EXCEPT ![q] = returned([r EXCEPT !.status = 404])]
         /\ UNCHANGED activeStreams
    ELSE LET loaded == [r EXCEPT !.session = sessionResponse,
                                 !.messages = sessionResponse.text \o r.messages,
                                 !.calledAI = TRUE,
                                 !.loadedAt = exchanges[r.sessionId],
                                 !.pc = "completion"] IN
         IF r.stream
         THEN /\ activeStreams' = [activeStreams EXCEPT ![r.sessionId] = q]
              /\ rq' = [rq EXCEPT ![q] =
                          sendSSEEvent([loaded EXCEPT !.status = 200, !.registered = TRUE],
                                       Event("start", 0, << >>, FALSE))]
         ELSE /\ rq' = [rq EXCEPT ![q] = loaded]
              /\ UNCHANGED activeStreams

GetSessionReturns(q) ==
    /\ rq[q].pc = "get_session"
    /\ sessionLoaded(q)
    /\ UNCHANGED <<store, issued, del, started, exchanges, replies, budget>>
    /\ UNCHANGED <<mcVars, rtVars, ctorVars, infoVars>>

\* a slip: the exchange is appended to the session as the store holds it now,
\* not to the copy sendMessage loaded
updatedSessionFresh(r, content) ==
    LET current == store[r.sessionId]
        messages == current.text \o <<r.messages[Len(r.messages)],
                                       [role |-> "assistant", content |-> content]>> IN
    [r EXCEPT !.content = content,
              !.messages = messages,
              !.session = [exists |-> TRUE, text |-> messages,
                           messageCount |-> current.messageCount + 2],
              !.pc = "update_session"]

\* the session update both handlers make once the completion is there
updatedSession(r, content) ==
    LET messages == Append(r.messages, [role |-> "assistant", content |-> content]) IN
    [r EXCEPT !.content = content,
              !.messages = messages,
              !.session = [exists |-> TRUE, text |-> messages,
                           messageCount |-> r.session.messageCount + 2],
              !.pc = "update_session"]

\* ai.get_response_or_perform_action resolved with a message
CompletionResolves(q, content) ==
    /\ rq[q].pc = "completion"
    /\ content \in replies
    /\ rq' = [rq EXCEPT ![q] = updatedSession(rq[q], content)]
    /\ UNCHANGED <<store, issued, activeStreams, del, started, exchanges, replies, budget>>
    /\ UNCHANGED <<mcVars, rtVars, ctorVars, infoVars>>

\* the catch block of _handleStreamingResponse
streamingCatch(r) ==
    returned([sendSSEEvent(r, Event("error", 0, << >>, FALSE)) EXCEPT !.ended = TRUE])

\* the route's async callback rejected with nothing sent yet: a router that
\* forwards rejections (Express 5) runs errorHandler, a 500 JSON body with the
\* message; one that does not (Express 4) leaves the request unanswered
routeRejected(r, forwarded) ==
    IF forwarded THEN [r EXCEPT !.status = 500] ELSE r

\* a slip: the catch block saves the session with the user's message before
\* it throws again
handlerCatchSaving(q, r) ==
    /\ store' = [store EXCEPT ![r.sessionId] =
                    [exists |-> TRUE, text |-> r.messages,
                     messageCount |-> r.session.messageCount + 1]]
    /\ IF r.stream
       THEN /\ rq' = [rq EXCEPT ![q] = streamingCatch(r)]
            /\ activeStreams' = mapDelete(activeStreams, r.sessionId)
       ELSE /\ \E forwarded \in BOOLEAN :
                   rq' = [rq EXCEPT ![q] = routeRejected(returned(r), forwarded)]
            /\ UNCHANGED activeStreams

\* the catch block of the handler a request is in: the streaming one writes
\* the error event, ends the response and drops the entry; both throw again.
\* sendMessage returned the handler's promise without awaiting it, so its own
\* catch block is not entered and the rejection reaches the route. Neither
\* catch block calls the store
handlerCatch(q, r) ==
    /\ UNCHANGED store
    /\ IF r.stream
       THEN /\ rq' = [rq EXCEPT ![q] = streamingCatch(r)]
            /\ activeStreams' = mapDelete(activeStreams, r.sessionId)
       ELSE /\ \E forwarded \in BOOLEAN :
                   rq' = [rq EXCEPT ![q] = routeRejected(returned(r), forwarded)]
            /\ UNCHANGED activeStreams

\* ai.get_response_or_perform_action rejected
CompletionRejects(q) ==
    /\ rq[q].pc = "completion"
    /\ handlerCatch(q, [rq[q] EXCEPT !.failure = "provider"])
    /\ UNCHANGED <<issued, del, started, exchanges, replies, budget>>
    /\ UNCHANGED <<mcVars, rtVars, ctorVars, infoVars>>

\* one chunk event of the for loop in _handleStreamingResponse
chunkEvent(r, i) ==
    sendSSEEvent(r, Event("chunk", i, r.chunks[i + 1], i = Len(r.chunks) - 1))

\* db.update_session, when it writes: the stored session is replaced by the
\* one passed, whatever the store held
update_session(current, session) == session

\* db.update_session resolved, with status true when the session was written
\* and status false when it was not; the handlers do not look at the
\* status: the JSON response, or the first chunk event
UpdateSessionReturns(q, status) ==
    /\ rq[q].pc = "update_session"
    /\ IF status
       THEN /\ store' = [store EXCEPT ![rq[q].sessionId] = update_session(@, rq[q].session)]
            /\ exchanges' = [exchanges EXCEPT ![rq[q].sessionId] = @ + 1]
       ELSE UNCHANGED <<store, exchanges>>
    /\ LET r == [rq[q] EXCEPT !.wrote = status,
                              !.failure = IF status THEN "none" ELSE "store_status"] IN
       IF r.stream
       THEN LET c == [r EXCEPT !.chunks = splitIntoChunks(contentOrEmpty(r.content), ChunkSize),
                               !.i = 0, !.pc = "chunk_delay"] IN
            rq' = [rq EXCEPT ![q] = chunkEvent(c, 0)]
       ELSE rq' = [rq EXCEPT ![q] = returned([r EXCEPT !.status = 200])]
    /\ UNCHANGED <<issued, activeStreams, del, started, replies, budget>>
    /\ UNCHANGED <<mcVars, rtVars, ctorVars, infoVars>>

\* db.update_session rejected
UpdateSessionRejects(q) ==
    /\ rq[q].pc = "update_session"
    /\ handlerCatch(q, [rq[q] EXCEPT !.failure = "store_rejected"])
    /\ UNCHANGED <<issued, del, started, exchanges, replies, budget>>
    /\ UNCHANGED <<mcVars, rtVars, ctorVars, infoVars>>

\* the 50 ms delay after a chunk has passed: the next chunk event, or the
\* complete event and the clean up
ChunkDelayPasses(q) ==
    /\ rq[q].pc = "chunk_delay"
    /\ LET r == [rq[q] EXCEPT !.i = @ + 1] IN
       IF r.i < Len(r.chunks)
       THEN /\ rq' = [rq EXCEPT ![q] = chunkEvent(r, r.i)]
            /\ UNCHANGED activeStreams
       ELSE /\ rq' = [rq EXCEPT ![q] =
                       returned([sendSSEEvent(r, Event("complete", 0, << >>, FALSE))
                                   EXCEPT !.ended = TRUE])]
            /\ activeStreams' = mapDelete(activeStreams, r.sessionId)
    /\ UNCHANGED <<store, issued, del, started, exchanges, replies, budget>>
    /\ UNCHANGED <<mcVars, rtVars, ctorVars, infoVars>>

\* the client of a streaming request closes its connection
ClientDisconnects(q) ==
    /\ rq[q].stream
    /\ rq[q].pc \in {"completion", "update_session", "chunk_delay"}
    /\ ~rq[q].disconnected
    /\ rq' = [rq EXCEPT ![q] = [rq[q] EXCEPT !.disconnected = TRUE]]
    /\ UNCHANGED <<store, issued, activeStreams, del, started, exchanges, replies, budget>>
    /\ UNCHANGED <<mcVars, rtVars, ctorVars, infoVars>>

\* five minutes have passed since the startTime of a tracked request
TimePasses(q) ==
    /\ \E s \in SessionIds : activeStreams[s] = q
    /\ ~rq[q].aged
    /\ rq' = [rq EXCEPT ![q] = [rq[q] EXCEPT !.aged = TRUE]]
    /\ UNCHANGED <<store, issued, activeStreams, del, started, exchanges, replies, budget>>
    /\ UNCHANGED <<mcVars, rtVars, ctorVars, infoVars>>

\* cleanup: the streams older than the timeout are ended and dropped
cleanup ==
    LET old == {s \in SessionIds : activeStreams[s] # NoStream /\ rq[activeStreams[s]].aged} IN
    /\ rq' = [q \in Slots |->
                IF \E s \in old : activeStreams[s] = q
                THEN [rq[q] EXCEPT !.ended = TRUE, !.swept = TRUE] ELSE rq[q]]
    /\ activeStreams' = [s \in SessionIds |-> IF s \in old THEN NoStream ELSE activeStreams[s]]
    /\ UNCHANGED <<store, issued, del, started, exchanges, replies, budget>>
    /\ UNCHANGED <<mcVars, rtVars, ctorVars, infoVars>>

\* deleteSession up to its await of db.delete_session
deleteSession(sessionId) ==
    /\ del.pc # "delete_session"
    /\ del' = [pc |-> "delete_session", sessionId |-> sessionId, status |-> 0]
    /\ IF activeStreams[sessionId] # NoStream
       THEN /\ rq' = [rq EXCEPT ![activeStreams[sessionId]] = [@ EXCEPT !.ended = TRUE]]
            /\ activeStreams' = mapDelete(activeStreams, sessionId)
       ELSE UNCHANGED <<rq, activeStreams>>
    /\ UNCHANGED <<store, issued, started, exchanges, replies, budget>>
    /\ UNCHANGED <<mcVars, rtVars, ctorVars, infoVars>>

\* db.delete_session resolved
DeleteSessionReturns ==
    /\ del.pc = "delete_session"
    /\ del' = [del EXCEPT !.pc = "done",
                          !.status = IF store[del.sessionId].exists THEN 200 ELSE 404]
    /\ store' = [store EXCEPT ![del.sessionId] = NoSession]
    /\ UNCHANGED <<issued, activeStreams, rq, started, exchanges, replies, budget>>
    /\ UNCHANGED <<mcVars, rtVars, ctorVars, infoVars>>

(***************************************************************************)
(* Specifications                                                          *)
(***************************************************************************)
\* a WebChatController right after construction, over an empty store
WebIdle ==
    /\ store = [s \in SessionIds |-> NoSession]
    /\ issued = {}
    /\ activeStreams = [s \in SessionIds |-> NoStream]
    /\ rq = [q \in Slots |-> RqIdle]
    /\ del = DelIdle
    /\ started = 0
    /\ exchanges = [s \in SessionIds |-> 0]

\* a ModelController that no caller uses
MCIdle ==
    /\ providers = {"llamaedge", "openai"}
    /\ primaryProvider = "llamaedge"
    /\ fallbackEnabled = TRUE
    /\ activeProvider = initialActive(providers, primaryProvider)
    /\ axiosErrorStatus = TRUE
    /\ leBackend = LEOk
    /\ oaBackend = OAOk
    /\ live = {}
    /\ IdleCalls
    /\ env = envOf(providers, primaryProvider, fallbackEnabled)
    /\ ctor = "constructed"

\* a ModelController right after its constructor returned, one caller
InitMC ==
    /\ providers \in (SUBSET {"llamaedge", "openai"}) \ {{}}
    /\ primaryProvider \in {"llamaedge", "openai"}
    /\ fallbackEnabled \in BOOLEAN
    /\ activeProvider = initialActive(providers, primaryProvider)
    /\ axiosErrorStatus \in BOOLEAN
    /\ leBackend \in LEOutcomes
    /\ oaBackend \in OAOutcomes
    /\ live = {"r1"}
    /\ IdleCalls
    /\ env = envOf(providers, primaryProvider, fallbackEnabled)
    /\ ctor = "constructed"
    /\ rt = RetryIdle
    /\ WebIdle
    /\ replies = {}
    /\ budget = 0

NextMC ==
    \/ \E c \in Callers : createChatCompletion(c)
    \/ \E c \in Callers : LlamaEdgeResponds(c)
    \/ \E c \in Callers : LlamaEdgeFails(c)
    \/ \E c \in Callers : BackoffDone(c)
    \/ \E c \in Callers : OpenAIResponds(c)
    \/ \E c \in Callers : OpenAIFails(c)
    \/ BackendChange
    \/ \E n \in SwitchNames : switchProvider(n)
    \/ \E h \in BOOLEAN : HealthCheckReturns(h)

SpecMC == InitMC /\ [][NextMC]_vars

\* every awaited backend call of a call in flight eventually resolves or
\* rejects, and every delay of _withRetry eventually passes
FairCalls ==
    \A c \in Callers :
        /\ WF_vars(LlamaEdgeResponds(c) \/ LlamaEdgeFails(c))
        /\ WF_vars(BackoffDone(c))
        /\ WF_vars(OpenAIResponds(c) \/ OpenAIFails(c))

\* the steps of completion calls and of the backends, no provider switch
\* being asked for
NextCalls ==
    \/ \E c \in Callers : createChatCompletion(c)
    \/ \E c \in Callers : LlamaEdgeResponds(c)
    \/ \E c \in Callers : LlamaEdgeFails(c)
    \/ \E c \in Callers : BackoffDone(c)
    \/ \E c \in Callers : OpenAIResponds(c)
    \/ \E c \in Callers : OpenAIFails(c)
    \/ BackendChange

SpecMCFair == InitMC /\ [][NextCalls]_vars /\ FairCalls

InitRetry ==
    /\ MCIdle
    /\ rt = RetryIdle
    /\ WebIdle
    /\ replies = {}
    /\ budget = 0

\* a ModelController about to be constructed, none of its fields set
InitCtor ==
    /\ env \in Envs
    /\ ctor = "new"
    /\ providers = {}
    /\ primaryProvider = "null"
    /\ fallbackEnabled = FALSE
    /\ activeProvider = "null"
    /\ axiosErrorStatus = TRUE
    /\ leBackend = LEOk
    /\ oaBackend = OAOk
    /\ live = {}
    /\ IdleCalls
    /\ rt = RetryIdle
    /\ WebIdle
    /\ replies = {}
    /\ budget = 0

NextCtor == newModelController

SpecCtor == InitCtor /\ [][NextCtor]_vars

\* a ModelController whose callers ask for the providers' information and for
\* provider switches while the backends change
InitInfo ==
    /\ providers \in (SUBSET {"llamaedge", "openai"}) \ {{}}
    /\ primaryProvider \in {"llamaedge", "openai"}
    /\ fallbackEnabled \in BOOLEAN
    /\ activeProvider = initialActive(providers, primaryProvider)
    /\ axiosErrorStatus = TRUE
    /\ leBackend \in LEOutcomes
    /\ oaBackend \in OAOutcomes
    /\ live = {}
    /\ IdleCalls
    /\ env = envOf(providers, primaryProvider, fallbackEnabled)
    /\ ctor = "constructed"
    /\ rt = RetryIdle
    /\ WebIdle
    /\ replies = {}
    /\ budget = 0

NextInfo ==
    \/ getProvidersInfo
    \/ ServerInfoReturns
    \/ InfoHealthCheckReturns
    \/ BackendChange
    \/ \E n \in SwitchNames : switchProvider(n)
    \/ \E h \in BOOLEAN : HealthCheckReturns(h)

SpecInfo == InitInfo /\ [][NextInfo]_vars

NextRetry ==
    \/ \E n \in 1..MaxN : withRetry(n)
    \/ OperationResolves
    \/ \E code \in OperationCodes : OperationRejects(code)
    \/ DelayPasses

SpecRetry == InitRetry /\ [][NextRetry]_vars

NextWeb ==
    \/ \E s \in SessionIds : createSession(s)
    \/ \E q \in Slots, s \in SessionIds, m \in Bodies, st \in BOOLEAN : sendMessage(q, s, m, st)
    \/ \E q \in Slots : GetSessionReturns(q)
    \/ \E q \in Slots, c \in replies : CompletionResolves(q, c)
    \/ \E q \in Slots : CompletionRejects(q)
    \/ \E q \in Slots, status \in BOOLEAN : UpdateSessionReturns(q, status)
    \/ \E q \in Slots : UpdateSessionRejects(q)
    \/ \E q \in Slots : ChunkDelayPasses(q)
    \/ \E q \in Slots : ClientDisconnects(q)
    \/ \E q \in Slots : TimePasses(q)
    \/ cleanup
    \/ \E s \in SessionIds : deleteSession(s)
    \/ DeleteSessionReturns

\* streaming of completions of every length, one request after the other
InitStream ==
    /\ MCIdle
    /\ rt = RetryIdle
    /\ WebIdle
    /\ replies = {NullContent} \cup {Text(n) : n \in 0..MaxLen}
    /\ budget = 1

SpecStream == InitStream /\ [][NextWeb]_vars

\* overlapping requests with short completions
InitWeb ==
    /\ MCIdle
    /\ rt = RetryIdle
    /\ WebIdle
    /\ replies = {Text(1)}
    /\ budget = MaxRequests

SpecWeb == InitWeb /\ [][NextWeb]_vars

(***************************************************************************)
(* Properties                                                              *)
(***************************************************************************)
\* the backend of provider p answers a chat request with a completion
backendOk(p) == IF p = "llamaedge" THEN leBackend.ok ELSE oaBackend.ok

\* index of provider p in the candidate order of caller c
orderIndex(c, p) == CHOOSE i \in 1..Len(providerOrder[c]) : providerOrder[c][i] = p

\* C1 as stated: a call with fallback enabled that ended while every backend
\* kept answering the same way did not fail if some configured provider's
\* backend answers with a completion.
C1_FallbackSucceedsIfAnyWould ==
    \A c \in Callers :
        (pc[c] = "thrown" /\ enableFallback[c] /\ stable[c])
            => ~(\E p \in providers : backendOk(p))

\* C1 amended: such a call fails only if every provider that would have
\* succeeded comes after a provider that failed with an error of status 400,
\* which is the error thrown.
C1_FallbackSucceedsUnlessStatus400 ==
    \A c \in Callers :
        (pc[c] = "thrown" /\ enableFallback[c] /\ stable[c])
            => \A p \in providers :
                   backendOk(p) =>
                       /\ result[c].error.status = 400
                       /\ result[c].error.provider \in providers
                       /\ orderIndex(c, result[c].error.provider) < orderIndex(c, p)

\* C1 witness: with fallback enabled the first candidate failed, the second
\* one answered and the call returned its response.
C1_Witness ==
    \E c \in Callers :
        /\ pc[c] = "returned" /\ enableFallback[c] /\ stable[c]
        /\ lastError[c] # NoError
        /\ lastError[c].provider = providerOrder[c][1]
        /\ result[c].response.provider = providerOrder[c][2]

\* C2 as stated: once a provider's call has failed with an invalid-request
\* error (LlamaEdge HTTP 400 classified INVALID_REQUEST, OpenAI status 400)
\* the call is over, that error is the one thrown and the failing provider
\* is the last one that was tried.
C2_InvalidRequestShortCircuits ==
    \A c \in Callers :
        LET e == lastError[c] IN
        (\/ e.provider = "llamaedge" /\ e.response = 400
                /\ e.code = ERROR_CODES.INVALID_REQUEST
         \/ e.provider = "openai" /\ e.status = 400)
            => /\ pc[c] = "thrown"
               /\ result[c].error = e
               /\ tried[c][Len(tried[c])] = e.provider

\* a server error: LlamaEdge's SERVER_ERROR code, OpenAI's status 500
isServerError(e) ==
    \/ e.provider = "llamaedge" /\ e.code = ERROR_CODES.SERVER_ERROR
    \/ e.provider = "openai" /\ e.status = 500

\* C3: with two providers and fallback enabled, when the provider active at
\* the start failed with a server error and the call returns, the response
\* carries the second provider's name and activeProvider is the second
\* provider at the return.
C3_FailoverReturnsSecond ==
    [][\A c \in Callers :
          (/\ pc[c] \in InFlight /\ pc'[c] = "returned"
           /\ Cardinality(providers) = 2 /\ enableFallback[c]
           /\ lastError[c].provider = providerOrder[c][1]
           /\ isServerError(lastError[c]))
              => /\ result'[c].response.provider = providerOrder[c][2]
                 /\ activeProvider' = providerOrder[c][2]]_vars

\* C3 witness: a call that returned the second provider's response after
\* the first provider's server error.
C3_Witness ==
    \E c \in Callers :
        /\ pc[c] = "returned" /\ enableFallback[c]
        /\ Len(providerOrder[c]) = 2
        /\ lastError[c].provider = providerOrder[c][1]
        /\ isServerError(lastError[c])
        /\ result[c].response.provider = providerOrder[c][2]
        /\ activeProvider = providerOrder[c][2]

\* C4: a call that starts while the latest failover's provider is still
\* promoted (no failed call and no switchProvider since) calls that
\* provider first.
C4_NextCallPrefersPromoted ==
    [][\A c \in Callers :
          (pc[c] \notin InFlight /\ pc'[c] \in InFlight /\ promoted # "none")
              => tried'[c] = <<promoted>>]_vars

\* C4 witness: after a failover to a provider other than the primary one,
\* the next call is in flight and its first candidate is that provider.
C4_Witness ==
    \E c \in Callers :
        /\ promoted \notin {"none", primaryProvider}
        /\ pc[c] \in InFlight
        /\ tried[c] = <<promoted>>
        /\ result[c].response = NoResponse

RetryableCodes ==
    {ERROR_CODES.CONNECTION_FAILED, ERROR_CODES.RATE_LIMITED,
     ERROR_CODES.SERVER_ERROR, ERROR_CODES.TIMEOUT}
TerminalCodes == {ERROR_CODES.INVALID_REQUEST, ERROR_CODES.MODEL_NOT_FOUND}

\* C5: a _withRetry call with maxAttempts = n whose operation failed with a
\* retryable error each time has called the operation n times, waited
\* DELAY_MS * BACKOFF_FACTOR^(i-1) after attempt i for i < n (a sequence
\* that never decreases), not waited after attempt n, and thrown the error
\* of attempt n.
C5_RetryExhausts ==
    (rt.pc = "thrown" /\ \A i \in 1..Len(rt.errors) : rt.errors[i].code \in RetryableCodes)
        => /\ rt.calls = rt.maxAttempts
           /\ Len(rt.errors) = rt.maxAttempts
           /\ Len(rt.delays) = rt.maxAttempts - 1
           /\ \A i \in 1..Len(rt.delays) : rt.delays[i] = DELAY_MS * BACKOFF_FACTOR^(i - 1)
           /\ \A i \in 1..(Len(rt.delays) - 1) : rt.delays[i] <= rt.delays[i + 1]
           /\ rt.thrown = rt.errors[rt.maxAttempts]
           /\ rt.thrown.attempt = rt.maxAttempts

\* C5 witness: three attempts, all failed with retryable errors, two waits.
C5_Witness ==
    /\ rt.pc = "thrown" /\ rt.maxAttempts = 3 /\ rt.calls = 3
    /\ \A i \in 1..Len(rt.errors) : rt.errors[i].code \in RetryableCodes
    /\ rt.delays = <<1000, 2000>>

\* C6: a failure classified INVALID_REQUEST or MODEL_NOT_FOUND is the last
\* attempt, thrown with no wait after it; a failure of one of the other four
\* kinds with attempts left is followed by a wait and never the error thrown.
C6_TerminalAborts ==
    /\ \A i \in 1..Len(rt.errors) :
           rt.errors[i].code \in TerminalCodes
               => /\ i = Len(rt.errors)
                  /\ rt.pc = "thrown"
                  /\ rt.thrown = rt.errors[i]
                  /\ rt.calls = i
                  /\ Len(rt.delays) = i - 1
    /\ \A i \in 1..Len(rt.errors) :
           (rt.errors[i].code \in RetryableCodes /\ i < rt.maxAttempts)
               => /\ Len(rt.delays) >= i
                  /\ rt.pc = "thrown" => Len(rt.errors) > i

\* C6 witness: a retryable failure was retried, the second attempt failed
\* with MODEL_NOT_FOUND and was thrown although an attempt was left.
C6_Witness ==
    /\ rt.pc = "thrown" /\ rt.maxAttempts = 3
    /\ Len(rt.errors) = 2
    /\ rt.errors[1].code = ERROR_CODES.TIMEOUT
    /\ rt.errors[2].code = ERROR_CODES.MODEL_NOT_FOUND
    /\ rt.thrown = rt.errors[2]

\* the events of one name among those written to a response
eventsNamed(events, name) == SelectSeq(events, LAMBDA e : e.event = name)

RECURSIVE concat(_)
\* the contents of a sequence of chunk events, joined
concat(events) ==
    IF events = << >> THEN << >> ELSE Head(events).content \o concat(Tail(events))

\* C7: a streaming request that streamed a completion of content length L
\* to its end wrote ceil(L / ChunkSize) chunk events, one with empty content
\* when L = 0, numbered from 0, isLast on the last one only, their contents
\* joined giving the content, and after them exactly one complete event.
C7_ChunkEvents ==
    \A q \in Slots :
        LET r == rq[q]
            text == IF r.content = NullContent THEN << >> ELSE r.content
            L == Len(text)
            chunks == eventsNamed(r.events, "chunk")
            n == Len(chunks) IN
        (r.stream /\ r.wrote /\ r.pc = "done")
            => /\ n = (IF L = 0 THEN 1 ELSE (L + ChunkSize - 1) \div ChunkSize)
               /\ \A i \in 1..n : chunks[i].chunkIndex = i - 1
               /\ \A i \in 1..n : chunks[i].isLast <=> (i = n)
               /\ L = 0 => chunks[1].content = << >>
               /\ concat(chunks) = text
               /\ Len(eventsNamed(r.events, "complete")) = 1
               /\ Len(r.events) = n + 2
               /\ r.events[1].event = "start"
               /\ \A i \in 1..n : r.events[i + 1] = chunks[i]
               /\ r.events[n + 2].event = "complete"

\* C7 witness: a completion of two full chunks and one more character was
\* streamed in three chunk events.
C7_Witness ==
    \E q \in Slots :
        /\ rq[q].stream /\ rq[q].wrote /\ rq[q].pc = "done"
        /\ Len(rq[q].content) = 2 * ChunkSize + 1
        /\ Len(eventsNamed(rq[q].events, "chunk")) = 3

\* C8 as stated: no chunk, complete or error event is written to a
\* connection that its client has closed, and such a connection is no
\* longer in activeStreams.
C8_NoEventAfterDisconnect ==
    \A q \in Slots :
        /\ \A i \in 1..Len(rq[q].events) :
               rq[q].events[i].event \in {"chunk", "complete", "error"}
                   => ~rq[q].events[i].afterClose
        /\ rq[q].disconnected => activeStreams[rq[q].sessionId] # q

\* C9: a sendMessage whose session the store does not hold when
\* db.get_session answers ends with status 404, having written nothing to
\* the store, called no completion, registered no stream and written no event.
C9_UnknownSessionNotFound ==
    [][\A q \in Slots :
          (rq[q].pc = "get_session" /\ rq'[q].pc # "get_session"
           /\ ~store[rq[q].sessionId].exists)
              => /\ rq'[q].pc = "done" /\ rq'[q].status = 404
                 /\ ~rq'[q].wrote /\ ~rq'[q].calledAI /\ ~rq'[q].registered
                 /\ rq'[q].events = << >>
                 /\ store' = store
                 /\ activeStreams' = activeStreams]_vars

\* C9 witness: a streaming and a plain request both ended with 404.
C9_Witness ==
    /\ rq["q1"].pc = "done" /\ rq["q1"].status = 404 /\ rq["q1"].stream
    /\ rq["q2"].pc = "done" /\ rq["q2"].status = 404 /\ ~rq["q2"].stream

\* C10 as stated: the stored messageCount of a session is its initial
\* value, 0, plus twice the number of exchanges completed on it (so that, the
\* number of completed exchanges only growing, it never decreases).
C10_CountTracksExchanges ==
    \A s \in SessionIds :
        store[s].exists => store[s].messageCount = 2 * exchanges[s]


\* C11: once exactly one exchange has been written back on a session, the
\* stored session has messageCount 2 and a history of two messages: the user
\* message with the text sent, without its surrounding blanks, then the
\* assistant message holding the completion's content.
C11_FirstExchangeStored ==
    \A s \in SessionIds :
        (store[s].exists /\ exchanges[s] = 1)
            => /\ store[s].messageCount = 2
               /\ Len(store[s].text) = 2
               /\ store[s].text[1].role = "user"
               /\ store[s].text[1].content # << >>
               /\ Head(store[s].text[1].content) # " "
               /\ store[s].text[1].content[Len(store[s].text[1].content)] # " "
               /\ store[s].text[1].content \in {<<"a">>}
               /\ store[s].text[2].role = "assistant"
               /\ store[s].text[2].content \in replies

\* C11 witness: a plain request with a padded message completed the first
\* exchange of a session and the session was stored.
C11_Witness ==
    \E q \in Slots, s \in SessionIds :
        /\ rq[q].pc = "done" /\ rq[q].wrote /\ ~rq[q].stream /\ rq[q].status = 200
        /\ rq[q].sessionId = s
        /\ exchanges[s] = 1
        /\ store[s] = [exists |-> TRUE, messageCount |-> 2,
                       text |-> <<[role |-> "user", content |-> <<"a">>],
                                  [role |-> "assistant", content |-> Text(1)]>>]

\* C12: activeProvider is always the name of one configured provider.
C12_ActiveIsConfigured ==
    /\ activeProvider \in providers
    /\ activeProvider \in {ProviderNames[i] : i \in 1..Len(ProviderNames)}

\* C12 witness: a switchProvider call awaits its probe while a completion
\* call is in flight, activeProvider being another provider than the one the
\* constructor chose.
C12_Witness ==
    /\ sw.pc = "probe"
    /\ \E c \in Callers : pc[c] \in InFlight
    /\ activeProvider # initialActive(providers, primaryProvider)
    /\ activeProvider \in providers

\* C13 as stated: every response a call returned has a choices array with
\* at least one element.
C13_ChoicesNeverEmpty ==
    \A c \in Callers :
        pc[c] = "returned"
            => /\ result[c].choices.array
               /\ Len(result[c].choices.items) > 0

\* C14 as stated: a request is the activeStreams entry of some session if
\* and only if its SSE response has been opened and has not been ended.
C14_EntryIffOpen ==
    \A q \in Slots :
        (rq[q].registered /\ ~rq[q].ended) <=> (\E s \in SessionIds : activeStreams[s] = q)

\* C15 as stated: a call that has tried every configured provider and seen
\* each fail throws an error of the controller's own, which is not the error
\* of a single provider.
C15_AllProvidersFailedIsDistinct ==
    \A c \in Callers :
        (/\ pc[c] = "thrown"
         /\ Len(tried[c]) = Cardinality(providers)
         /\ lastError[c] # NoError
         /\ ~rethrown(lastError[c]))
            => /\ result[c].error.provider = "controller"
               /\ result[c].error # lastError[c]

\* C16 as stated: when a switchProvider call for a configured name finishes,
\* activeProvider is that name if the probe reported healthy; if it reported
\* unhealthy the call fails and activeProvider is the value it had when
\* switchProvider was called (so it is the name only if the name was active
\* already).
C16_SwitchCommitsIffHealthy ==
    [][(sw.pc = "probe" /\ sw'.pc = "done")
          => /\ sw'.result \in {"switched", "unhealthy"}
             /\ sw'.result = "switched" => activeProvider' = sw.providerName
             /\ sw'.result = "unhealthy" => activeProvider' = sw.oldProvider]_vars

\* C17: a switchProvider call with a name that is not configured ends at
\* once with the provider-unavailable error: it awaits no probe and
\* activeProvider is what it was.
C17_UnconfiguredSwitchFails ==
    [][\A n \in SwitchNames \ providers :
          (sw.pc # "probe" /\ sw'.providerName = n /\ sw' # sw)
              => /\ sw'.pc = "done"
                 /\ sw'.result = "unavailable"
                 /\ activeProvider' = activeProvider]_vars

\* C17 witness: a switchProvider call for a name that is not configured has
\* failed with the provider-unavailable error.
C17_Witness ==
    /\ sw.pc = "done"
    /\ sw.result = "unavailable"
    /\ sw.providerName \notin providers

\* C18 as stated: a createChatCompletion call that starts while a
\* switchProvider call awaits its probe does not see the candidate as
\* activeProvider: the candidate is not the first of its providerOrder.
C18_SwitchInFlightNotObserved ==
    [][\A c \in Callers :
          (/\ pc[c] \notin InFlight /\ pc'[c] \in InFlight
           /\ sw.pc = "probe" /\ sw.providerName # sw.oldProvider)
              => providerOrder'[c][1] # sw.providerName]_vars

C20_StreamFailureEmitsOneError ==
    \A q \in Slots :
        (rq[q].stream /\ rq[q].registered /\ rq[q].pc = "done" /\ rq[q].failure # "none")
            => /\ Len(eventsNamed(rq[q].events, "error")) = 1
               /\ rq[q].events[Len(rq[q].events)].event = "error"
               /\ Len(eventsNamed(rq[q].events, "complete")) = 0
               /\ rq[q].ended
               /\ activeStreams[rq[q].sessionId] # q

\* C21 as stated: a request whose completion pipeline failed (the completion
\* rejected) has, once its handling is over, been answered: with an error
\* status and JSON body when not streaming, with an error event followed by
\* the end of the response when streaming.
C21_FailureAlwaysAnswered ==
    \A q \in Slots :
        (rq[q].pc = "done" /\ rq[q].failure = "provider")
            => IF rq[q].stream
               THEN /\ Len(rq[q].events) > 0
                    /\ rq[q].events[Len(rq[q].events)].event = "error"
                    /\ rq[q].ended
               ELSE rq[q].status >= 400

\* C22 as stated: when the LlamaEdge chat request of a call ran into its
\* timeout, _withRetry retries it while attempts are left, and the error it
\* throws to createChatCompletion after the last attempt is classified TIMEOUT.
C22_TimeoutClassifiedAndRetried ==
    [][\A c \in Callers :
          (pc[c] = "llamaedge" /\ leBackend.timedOut /\ pc'[c] # "llamaedge")
              => IF attempt[c] < MAX_ATTEMPTS
                 THEN pc'[c] = "backoff"
                 ELSE lastError'[c].code = ERROR_CODES.TIMEOUT]_vars

\* C23 as stated: removing an entry of activeStreams twice is the same as
\* removing it once, and a request whose response the cleanup sweep ended and
\* whose entry it removed has written no event to the ended response and is
\* not in the registry.
C23_SweepThenOwnerSilent ==
    /\ \A s \in SessionIds :
          mapDelete(mapDelete(activeStreams, s), s) = mapDelete(activeStreams, s)
    /\ \A q \in Slots :
          rq[q].swept
              => /\ \A i \in 1..Len(rq[q].events) : ~rq[q].events[i].afterEnd
                 /\ activeStreams[rq[q].sessionId] # q

\* C24: a call made with fallback disabled has called at most one provider,
\* the one that was active when the call started; when the call ended in
\* failure the error thrown is that provider's error.
C24_NoFallbackOnlyActive ==
    \A c \in live :
        (pc[c] \in InFlight \cup {"returned", "thrown"} /\ ~enableFallback[c])
            => /\ Len(tried[c]) <= 1
               /\ \A i \in 1..Len(tried[c]) : tried[c][i] = providerOrder[c][1]
               /\ pc[c] = "thrown"
                     => /\ result[c].error = lastError[c]
                        /\ result[c].error.provider = providerOrder[c][1]

\* C24 witness: two providers are configured, fallback is disabled, the
\* active provider failed with an error that is not rethrown at once, and the
\* call threw without the other provider being called.
C24_Witness ==
    \E c \in live :
        /\ ~enableFallback[c]
        /\ providers = {"llamaedge", "openai"}
        /\ pc[c] = "thrown"
        /\ ~rethrown(result[c].error)
        /\ tried[c] = <<providerOrder[c][1]>>
        /\ result[c].error.provider = providerOrder[c][1]

\* the position of a provider name in the registry's insertion order
registryIndex(p) == CHOOSE i \in 1..Len(ProviderNames) : ProviderNames[i] = p

\* C25: the step that starts a call builds a candidate order whose head is
\* the provider active at that moment, whose tail is the other configured
\* providers in registry order, and in which every configured provider occurs
\* exactly once; no step taken while the call is in flight changes the order,
\* whatever happens to activeProvider.
C25_OrderActiveFirstAndFixed ==
    [][\A c \in Callers :
          /\ (pc[c] \notin InFlight /\ pc'[c] \in InFlight)
                => LET order == providerOrder'[c] IN
                   /\ order[1] = activeProvider
                   /\ {order[i] : i \in 1..Len(order)} = providers
                   /\ Len(order) = Cardinality(providers)
                   /\ \A i, j \in 2..Len(order) :
                         i < j => registryIndex(order[i]) < registryIndex(order[j])
          /\ pc[c] \in InFlight => providerOrder'[c] = providerOrder[c]]_vars

\* C25 witness: a call built its order with llamaedge active, llamaedge
\* failed, activeProvider was changed to openai by someone else while the
\* call was in flight, and the call is now at the second candidate of its order.
C25_Witness ==
    \E c \in live :
        /\ pc[c] = "openai"
        /\ providerOrder[c] = <<"llamaedge", "openai">>
        /\ tried[c] = <<"llamaedge", "openai">>
        /\ activeProvider = "openai"

\* an error after which the retry policy makes a further attempt when one is
\* left: not one of the terminal codes, and not a rejected request
retryableFailure(error) == ~withRetryTerminal(error) /\ error.response # 400

\* C26 as stated: a candidate whose completion call ended in a retryable
\* failure was invoked as many times as the retry policy allows before the
\* failure reached the sequencer, whichever provider it is; and the sequencer
\* counts candidates, not retries.
C26_EveryCandidateRetried ==
    \A c \in live :
        /\ (lastError[c] # NoError /\ retryableFailure(lastError[c]))
              => lastError[c].attempt = MAX_ATTEMPTS
        /\ pc[c] \in InFlight \cup {"returned", "thrown"} => attempts[c] = Len(tried[c])

\* C27 as stated: a streaming request that completed without failure wrote
\* one start event as a registered connection, then chunk events numbered
\* 0, 1, ..., n-1, then one complete event and nothing else; it is then out of
\* the registry with its response ended, and none of its events was written
\* to a response that had already been ended.
C27_StreamEventOrder ==
    \A q \in Slots :
        LET r == rq[q]
            n == Len(r.events) - 2 IN
        (r.stream /\ r.registered /\ r.pc = "done" /\ r.failure = "none")
            => /\ n >= 1
               /\ r.events[1].event = "start"
               /\ \A i \in 1..n : /\ r.events[i + 1].event = "chunk"
                                  /\ r.events[i + 1].chunkIndex = i - 1
               /\ r.events[n + 2].event = "complete"
               /\ r.ended
               /\ activeStreams[r.sessionId] # q
               /\ \A i \in 1..Len(r.events) : ~r.events[i].afterEnd

\* C28 as stated: a streaming connection that has been open for five
\* minutes, many times any heartbeat interval, has been written a heartbeat
\* frame; and no heartbeat frame was written to a response after it was
\* ended or after its client went away.
C28_OpenStreamHasHeartbeat ==
    \A q \in Slots :
        /\ (rq[q].stream /\ rq[q].registered /\ rq[q].aged
            /\ ~rq[q].ended /\ ~rq[q].disconnected)
              => Len(eventsNamed(rq[q].events, "heartbeat")) > 0
        /\ \A i \in 1..Len(rq[q].events) :
              rq[q].events[i].event = "heartbeat"
                  => ~rq[q].events[i].afterEnd /\ ~rq[q].events[i].afterClose

\* C29: when a request writes its session back after another request on the
\* same session, loaded from the same stored value, has written its own, the
\* stored session becomes exactly the later writer's copy: the history is no
\* longer than before the write and messageCount is unchanged, so the earlier
\* writer's exchange is no longer stored.
C29_LastWriterWins ==
    [][\A q, p \in Slots :
          LET s == rq[q].sessionId IN
          (/\ q # p
           /\ rq[q].pc = "update_session" /\ rq'[q].pc # "update_session" /\ rq'[q].wrote
           /\ rq[p].wrote /\ rq[p].sessionId = s /\ rq[p].loadedAt = rq[q].loadedAt
           /\ store[s].exists)
              => /\ store'[s] = rq[q].session
                 /\ Len(store'[s].text) = Len(store[s].text)
                 /\ store'[s].messageCount = store[s].messageCount
                 /\ store'[s].text[Len(store'[s].text)].content = rq[q].content]_vars

\* C29 witness: two requests loaded the same session before either wrote,
\* both wrote it back, and the store holds one exchange.
C29_Witness ==
    \E s \in SessionIds :
        /\ \A q \in Slots : /\ rq[q].pc = "done" /\ rq[q].wrote
                            /\ rq[q].sessionId = s /\ rq[q].loadedAt = 0
        /\ exchanges[s] = 2
        /\ store[s].exists
        /\ store[s].messageCount = 2
        /\ Len(store[s].text) = 2

\* C30: while a call is in flight no step of that call changes
\* activeProvider unless it is the step in which the call returns a response;
\* in particular the step in which the call throws leaves it as it was, and
\* when no switchProvider call was ever made it is then the provider that
\* was active when the call started.
C30_FailureKeepsActive ==
    [][\A c \in Callers :
          (pc[c] \in InFlight /\ pc'[c] # pc[c] /\ pc'[c] # "returned")
              => /\ activeProvider' = activeProvider
                 /\ (pc'[c] = "thrown" /\ sw'.pc = "idle")
                       => activeProvider' = providerOrder'[c][1]]_vars

\* C30 witness: a call made while llamaedge was active tried both providers,
\* both failed, the call threw, and llamaedge is still active.
C30_Witness ==
    \E c \in live :
        /\ pc[c] = "thrown"
        /\ tried[c] = <<"llamaedge", "openai">>
        /\ result[c].error.provider = "openai"
        /\ activeProvider = "llamaedge"
        /\ sw.pc = "idle"

\* C31: the step in which the completion of a request fails writes nothing
\* to the store, for a streaming and for a plain request; the request is then
\* over and has made no write of its own.
C31_FailedCompletionWritesNothing ==
    [][\A q \in Slots :
          (rq[q].pc = "completion" /\ rq'[q].failure = "provider")
              => /\ store' = store
                 /\ exchanges' = exchanges
                 /\ rq'[q].pc = "done"
                 /\ ~rq'[q].wrote]_vars

\* C31 witness: a streaming and a plain request on a stored session both had
\* their completion fail, and the session is stored as it was created.
C31_Witness ==
    \E s \in SessionIds :
        /\ \A q \in Slots : /\ rq[q].pc = "done" /\ rq[q].failure = "provider"
                            /\ rq[q].sessionId = s /\ rq[q].calledAI
        /\ \E q \in Slots : rq[q].stream
        /\ \E q \in Slots : ~rq[q].stream
        /\ store[s] = newSession

\* C32 as stated: a streaming request that has written a chunk event to its
\* client has before that written its exchange to the store.
C32_ChunkImpliesStored ==
    \A q \in Slots :
        Len(eventsNamed(rq[q].events, "chunk")) > 0 => rq[q].wrote

\* C33 as stated: once deleteSession has deleted a session from the store
\* and every sendMessage request is over, the session is absent from the store.
C33_DeletedStaysDeleted ==
    (/\ del.pc = "done" /\ del.status = 200
     /\ \A q \in Slots : rq[q].pc \in {"new", "done"})
        => ~store[del.sessionId].exists

\* C34 as stated: a streaming request whose response is open and whose
\* handler is still running is the activeStreams entry of its session, also
\* while another streaming request on the same session is running.
C34_OverlappingStreamsTracked ==
    \A q \in Slots :
        (rq[q].stream /\ rq[q].registered /\ ~rq[q].ended /\ rq[q].pc # "done")
            => activeStreams[rq[q].sessionId] = q

\* C35 as stated: when a completion call has returned, the provider name the
\* handlers report to the client for the exchange is the provider that
\* produced the completion.
C35_ReportedProviderIsProducer ==
    \A c \in live :
        pc[c] = "returned" => getActiveProvider = result[c].response.provider

\* C36: a call in flight has made at most MAX_ATTEMPTS requests to the
\* LlamaEdge backend, the providers it has called are distinct and are taken
\* from its candidate order in that order, so that openai is called at most
\* once; and every call in flight eventually returns or throws.
C36_CallTerminatesBounded ==
    /\ [](\A c \in live :
            pc[c] \in InFlight
                => /\ attempt[c] \in 1..MAX_ATTEMPTS
                   /\ Len(tried[c]) <= Len(providerOrder[c])
                   /\ \A i, j \in 1..Len(tried[c]) :
                         i < j => orderIndex(c, tried[c][i]) < orderIndex(c, tried[c][j])
                   /\ pc[c] = "openai" => attempt[c] = 1)
    /\ \A c \in Callers : (pc[c] \in InFlight) ~> (pc[c] \in {"returned", "thrown"})

\* C36 witness: a call has thrown after three failed LlamaEdge attempts and
\* one failed OpenAI call.
C36_Witness ==
    \E c \in live :
        /\ pc[c] = "thrown"
        /\ tried[c] = <<"llamaedge", "openai">>
        /\ lastError[c].provider = "openai"
        /\ activeProvider = "llamaedge"
        /\ ~leBackend.ok /\ leBackend.timedOut /\ stable[c]
        /\ sw.pc = "idle"

\* C37 as stated: when getProvidersInfo fills in the openai entry, the
\* healthy field it reports is the answer of a probe of the OpenAI provider:
\* the provider probed is openai and the field says whether the OpenAI
\* backend answered.
C37_OpenAIEntryProbesOpenAI ==
    [][(info.pc = "health_check" /\ info'.pc # "health_check")
          => /\ info.target = "openai"
             /\ info'.healthy["openai"] = oaBackend.ok]_vars

\* C38: when a LlamaEdge request of a call failed and its error was thrown
\* to createChatCompletion, the error carries exactly the code the claim
\* gives for the way the request failed: by HTTP status when a response came,
\* CONNECTION_FAILED when the request was sent and no response came,
\* INVALID_REQUEST when the request was not sent.
C38_ErrorClassification ==
    [][\A c \in Callers :
          (pc[c] = "llamaedge" /\ pc'[c] \notin {"llamaedge", "backoff", "returned"})
              => LET code == lastError'[c].code IN
                 /\ lastError'[c].provider = "llamaedge"
                 /\ code \in {ERROR_CODES.MODEL_NOT_FOUND, ERROR_CODES.INVALID_REQUEST,
                              ERROR_CODES.RATE_LIMITED, ERROR_CODES.SERVER_ERROR,
                              ERROR_CODES.CONNECTION_FAILED}
                 /\ (leBackend.response /\ leBackend.status = 404)
                        => code = ERROR_CODES.MODEL_NOT_FOUND
                 /\ (leBackend.response /\ leBackend.status = 400)
                        => code = ERROR_CODES.INVALID_REQUEST
                 /\ (leBackend.response /\ leBackend.status = 429)
                        => code = ERROR_CODES.RATE_LIMITED
                 /\ (leBackend.response /\ leBackend.status \notin {400, 404, 429})
                        => code = ERROR_CODES.SERVER_ERROR
                 /\ (~leBackend.response /\ leBackend.request)
                        => code = ERROR_CODES.CONNECTION_FAILED
                 /\ (~leBackend.response /\ ~leBackend.request)
                        => code = ERROR_CODES.INVALID_REQUEST]_vars

\* C38 witness: a LlamaEdge request answered with HTTP 401, a status the
\* switch has no case for, and the error thrown after the last attempt is
\* classified SERVER_ERROR.
C38_Witness ==
    \E c \in live :
        /\ lastError[c].provider = "llamaedge"
        /\ lastError[c].response = 401
        /\ lastError[c].attempt = MAX_ATTEMPTS
        /\ lastError[c].code = ERROR_CODES.SERVER_ERROR

====
